---- MODULE Spec2Model ----
(***************************************************************************)
(* A model of paramak's geometric utility layer (paramak/utils.py) and of  *)
(* the CenterColumnShieldCylinder profile builder                          *)
(* (paramak/parametric_components/center_column_cylinder.py).              *)
(*                                                                         *)
(* Each component has its own specification over the shared variables:     *)
(*   SpecBool    cut_solid / union_solid / intersect_solid                 *)
(*   SpecSel     FaceAreaSelector.filter / EdgeLengthSelector.filter       *)
(*   SpecAngle   diff_between_angles                                       *)
(*   SpecShield  CenterColumnShieldCylinder setters and find_points        *)
(*   SpecLine    coefficients_of_line_from_points                          *)
(*   SpecCircle  find_center_point_of_circle                               *)
(*   SpecThick   add_thickness                                             *)
(* A specification leaves the variables of the other components at rest.   *)
(*                                                                         *)
(* Numbers are exact: floats are modelled by integers and by rationals     *)
(* <<num, den>> in lowest terms, so floating-point rounding is abstracted. *)
(* Python's None is the empty tuple <<>>; a number v that may be None is   *)
(* held as <<v>>.                                                          *)
(***************************************************************************)
EXTENDS Integers, Sequences, FiniteSets, TLC

VARIABLES
    \* boolean combination
    op, solid, operands, batch, batched, acc, nseq,
    \* feature selectors
    selector, objectList, new_obj_list, filtered,
    \* diff_between_angles
    a, b, c, angled,
    \* CenterColumnShieldCylinder
    height, inner_radius, outer_radius, points, err, last,
    \* coefficients_of_line_from_points
    point1, point2, coeffs, fitted,
    \* find_center_point_of_circle
    tri, scale, circle, circled,
    \* add_thickness
    x, y, thickness, dy_dx, supplied, i, convex, x_outer, y_outer, pc

boolVars   == <<op, solid, operands, batch, batched, acc, nseq>>
selVars    == <<selector, objectList, new_obj_list, filtered>>
angleVars  == <<a, b, c, angled>>
shieldVars == <<height, inner_radius, outer_radius, points, err, last>>
lineVars   == <<point1, point2, coeffs, fitted>>
circleVars == <<tri, scale, circle, circled>>
thickVars  == <<x, y, thickness, dy_dx, supplied, i, convex, x_outer, y_outer,
                pc>>
vars == <<boolVars, selVars, angleVars, shieldVars, lineVars, circleVars,
          thickVars>>

notOfBool == <<selVars, angleVars, shieldVars,
              lineVars, circleVars, thickVars>>
notOfSel == <<boolVars, angleVars, shieldVars,
             lineVars, circleVars, thickVars>>
notOfAngle == <<boolVars, selVars, shieldVars,
               lineVars, circleVars, thickVars>>
notOfShield == <<boolVars, selVars, angleVars,
                lineVars, circleVars, thickVars>>
notOfLine == <<boolVars, selVars, angleVars,
              shieldVars, circleVars, thickVars>>
notOfCircle == <<boolVars, selVars, angleVars,
                shieldVars, lineVars, thickVars>>
notOfThick == <<boolVars, selVars, angleVars,
               shieldVars, lineVars, circleVars>>

None == <<>>

(***************************************************************************)
(* Exact arithmetic helpers.                                               *)
(***************************************************************************)
Abs(n) == IF n < 0 THEN -n ELSE n

RECURSIVE GCD(_, _)
GCD(m, n) == IF n = 0 THEN m ELSE GCD(n, m % n)

\* The rational num/den (den # 0) in lowest terms with a positive denominator.
Rat(num, den) ==
    LET g == GCD(Abs(num), Abs(den))
        s == IF den < 0 THEN -1 ELSE 1
    IN  <<(s * num) \div g, (s * den) \div g>>

(***************************************************************************)
(* Boolean combination: cut_solid, union_solid, intersect_solid.           *)
(* A kernel solid is opaque: the result of a kernel operation is the term  *)
(* <<operation, receiver, argument>>, so two results are equal only when   *)
(* the same kernel calls were made in the same order on the same solids.   *)
(***************************************************************************)
NumSolids == 3
MaxOperands == 3

Solids == {<<"solid", n>> : n \in 1..NumSolids}
Shapes == {[solid |-> s] : s \in Solids}
Ops == {"cut", "union", "intersect"}

\* solid.cut(other), solid.union(other), solid.intersect(other)
KernelCut(s, other)       == <<"cut", s, other>>
KernelUnion(s, other)     == <<"union", s, other>>
KernelIntersect(s, other) == <<"intersect", s, other>>

\* The operand of a call: one Shape, or an Iterable of Shapes.
OneShape(shape)  == [iterable |-> FALSE, shape |-> shape]
ShapeList(items) == [iterable |-> TRUE, items |-> items]
isinstance_Iterable(operand) == operand.iterable

RECURSIVE CutLoop(_, _)
CutLoop(s, cutter) ==
    IF cutter = <<>> THEN s
    ELSE CutLoop(KernelCut(s, Head(cutter).solid), Tail(cutter))

RECURSIVE UnionLoop(_, _)
UnionLoop(s, joiner) ==
    IF joiner = <<>> THEN s
    ELSE UnionLoop(KernelUnion(s, Head(joiner).solid), Tail(joiner))

RECURSIVE IntersectLoop(_, _)
IntersectLoop(s, intersecter) ==
    IF intersecter = <<>> THEN s
    ELSE IntersectLoop(KernelIntersect(s, Head(intersecter).solid),
                       Tail(intersecter))

\* A loop that cuts every operand from the solid it was given, not from the
\* accumulating result.
cut_solid_from_base(s, cutter) ==
    IF isinstance_Iterable(cutter)
    THEN IF cutter.items = <<>> THEN s
         ELSE KernelCut(s, cutter.items[Len(cutter.items)].solid)
    ELSE KernelCut(s, cutter.shape.solid)

cut_solid(s, cutter) ==
    IF isinstance_Iterable(cutter)
    THEN CutLoop(s, cutter.items)
    ELSE KernelCut(s, cutter.shape.solid)

union_solid(s, joiner) ==
    IF isinstance_Iterable(joiner)
    THEN UnionLoop(s, joiner.items)
    ELSE KernelUnion(s, joiner.shape.solid)

intersect_solid(s, intersecter) ==
    IF isinstance_Iterable(intersecter)
    THEN IntersectLoop(s, intersecter.items)
    ELSE KernelIntersect(s, intersecter.shape.solid)

Combine(o, s, operand) ==
    CASE o = "cut"       -> cut_solid(s, operand)
      [] o = "union"     -> union_solid(s, operand)
      [] o = "intersect" -> intersect_solid(s, operand)

OperandLists == UNION {[1..n -> Shapes] : n \in 0..MaxOperands}

BoolRest ==
    /\ op = "cut" /\ solid = <<"solid", 1>> /\ operands = <<>>
    /\ batch = <<"solid", 1>> /\ batched = FALSE
    /\ acc = <<"solid", 1>> /\ nseq = 0

BoolInit ==
    /\ op \in Ops
    /\ solid \in Solids
    /\ operands \in OperandLists
    /\ batch = solid /\ batched = FALSE
    /\ acc = solid /\ nseq = 0

\* One call with the whole collection.
BatchCall ==
    /\ ~batched
    /\ batch' = Combine(op, solid, ShapeList(operands))
    /\ batched' = TRUE
    /\ UNCHANGED <<op, solid, operands, acc, nseq>>
    /\ UNCHANGED notOfBool

\* The next call of the sequential application: one Shape, on the result of
\* the previous call.
SingleCall ==
    /\ nseq < Len(operands)
    /\ acc' = Combine(op, acc, OneShape(operands[nseq + 1]))
    /\ nseq' = nseq + 1
    /\ UNCHANGED <<op, solid, operands, batch, batched>>
    /\ UNCHANGED notOfBool

(***************************************************************************)
(* Feature selectors.  A feature is [id, measure]: id is its place in the  *)
(* candidate list, measure is what obj.Area() / obj.Length() returns, in   *)
(* tenths of a unit.                                                       *)
(***************************************************************************)
MaxFeatures == 3
MaxMeasure == 4
MaxTol == 2
DefaultTol == 1

Area(obj)   == obj.measure
Length(obj) == obj.measure

FaceAreaSelector_init(area, tol) ==
    [kind |-> "face", area |-> area, length |-> 0, tol |-> tol]
EdgeLengthSelector_init(length, tol) ==
    [kind |-> "edge", area |-> 0, length |-> length, tol |-> tol]

\* The closed interval instead of the open one.
FaceKeepsClosed(self, obj) ==
    LET face_area == Area(obj)
    IN  face_area >= self.area - self.tol /\ face_area <= self.area + self.tol

FaceKeeps(self, obj) ==
    LET face_area == Area(obj)
    IN  face_area > self.area - self.tol /\ face_area < self.area + self.tol

EdgeKeeps(self, obj) ==
    LET edge_len == Length(obj)
    IN  edge_len > self.length - self.tol /\ edge_len < self.length + self.tol

RECURSIVE FaceLoop(_, _, _)
FaceLoop(self, rest, kept) ==
    IF rest = <<>> THEN kept
    ELSE FaceLoop(self, Tail(rest),
                  IF FaceKeeps(self, Head(rest))
                  THEN Append(kept, Head(rest)) ELSE kept)

RECURSIVE EdgeLoop(_, _, _)
EdgeLoop(self, rest, kept) ==
    IF rest = <<>> THEN kept
    ELSE EdgeLoop(self, Tail(rest),
                  IF EdgeKeeps(self, Head(rest))
                  THEN Append(kept, Head(rest)) ELSE kept)

FaceAreaSelector_filter(self, objs)   == FaceLoop(self, objs, <<>>)
EdgeLengthSelector_filter(self, objs) == EdgeLoop(self, objs, <<>>)

Measures == 0..MaxMeasure
Tols == (0..MaxTol) \cup {DefaultTol}
Selectors ==
    {FaceAreaSelector_init(m, t) : m \in Measures, t \in Tols}
    \cup {EdgeLengthSelector_init(m, t) : m \in Measures, t \in Tols}
FeatureLists ==
    UNION {{[n \in 1..len |-> [id |-> n, measure |-> ms[n]]] :
              ms \in [1..len -> Measures]} : len \in 0..MaxFeatures}

SelRest ==
    /\ selector = FaceAreaSelector_init(0, DefaultTol)
    /\ objectList = <<>> /\ new_obj_list = <<>> /\ filtered = FALSE

SelInit ==
    /\ selector \in Selectors
    /\ objectList \in FeatureLists
    /\ new_obj_list = <<>> /\ filtered = FALSE

FaceFilter ==
    /\ ~filtered /\ selector.kind = "face"
    /\ new_obj_list' = FaceAreaSelector_filter(selector, objectList)
    /\ filtered' = TRUE
    /\ UNCHANGED <<selector, objectList>>
    /\ UNCHANGED notOfSel

EdgeFilter ==
    /\ ~filtered /\ selector.kind = "edge"
    /\ new_obj_list' = EdgeLengthSelector_filter(selector, objectList)
    /\ filtered' = TRUE
    /\ UNCHANGED <<selector, objectList>>
    /\ UNCHANGED notOfSel

(***************************************************************************)
(* diff_between_angles, on whole degrees.  Python's % with a positive      *)
(* modulus returns a value in [0, 360), as TLA+'s % does.                  *)
(***************************************************************************)
MaxAngle == 370

\* The wrap test with >= instead of >.
diff_between_angles_ge(p, q) ==
    LET r == (q - p) % 360
    IN  IF r >= 180 THEN r - 360 ELSE r

diff_between_angles(p, q) ==
    LET r == (q - p) % 360
    IN  IF r > 180 THEN r - 360 ELSE r

Angles == (-MaxAngle)..MaxAngle

AngleRest == a = 0 /\ b = 0 /\ c = 0 /\ angled = FALSE

AngleInit == a \in Angles /\ b \in Angles /\ c = 0 /\ angled = FALSE

DiffCall ==
    /\ ~angled
    /\ c' = diff_between_angles(a, b)
    /\ angled' = TRUE
    /\ UNCHANGED <<a, b>>
    /\ UNCHANGED notOfAngle

(***************************************************************************)
(* CenterColumnShieldCylinder.  The three fields hold whatever the setters *)
(* were given: a number <<v>> or None.  The profile points are held in     *)
(* half units, so that height / 2 is exact: a whole number v is 2 * v      *)
(* halves and height / 2 is height halves.                                 *)
(*                                                                         *)
(* The parameter list of __init__ (lines 26-27 of the source) reads        *)
(*     name="center_column,"  material_tag="center_column_shield_mat",     *)
(* with the comma inside the string literal, which Python rejects when it  *)
(* compiles the file.  The model takes the parameter list as meant         *)
(* (name="center_column", material_tag=...), and with it the class body    *)
(* as written.                                                             *)
(***************************************************************************)
MaxHeight == 4
MaxRadius == 3

Heights == {None} \cup {<<h>> : h \in (-1)..MaxHeight}
Radii   == {None} \cup {<<r>> : r \in 0..MaxRadius}

Whole(v)  == 2 * v
HalfOf(v) == v

\* None >= number, number >= None and None >= None raise TypeError.
\* The comparison with > instead of >=.
find_points_gt(self) ==
    IF self.inner_radius = None \/ self.outer_radius = None
    THEN [err |-> "TypeError", points |-> self.points]
    ELSE IF self.inner_radius[1] > self.outer_radius[1]
    THEN [err |-> "ValueError", points |-> self.points]
    ELSE IF self.height = None
    THEN [err |-> "ValueError", points |-> self.points]
    ELSE [err |-> "ok",
          points |-> << <<Whole(self.inner_radius[1]), HalfOf(self.height[1])>>,
                        <<Whole(self.outer_radius[1]), HalfOf(self.height[1])>>,
                        <<Whole(self.outer_radius[1]), -HalfOf(self.height[1])>>,
                        <<Whole(self.inner_radius[1]), -HalfOf(self.height[1])>> >>]

\* The last two corners in the other order.
find_points_swapped(self) ==
    IF self.inner_radius = None \/ self.outer_radius = None
    THEN [err |-> "TypeError", points |-> self.points]
    ELSE IF self.inner_radius[1] >= self.outer_radius[1]
    THEN [err |-> "ValueError", points |-> self.points]
    ELSE IF self.height = None
    THEN [err |-> "ValueError", points |-> self.points]
    ELSE [err |-> "ok",
          points |-> << <<Whole(self.inner_radius[1]), HalfOf(self.height[1])>>,
                        <<Whole(self.outer_radius[1]), HalfOf(self.height[1])>>,
                        <<Whole(self.inner_radius[1]), -HalfOf(self.height[1])>>,
                        <<Whole(self.outer_radius[1]), -HalfOf(self.height[1])>> >>]

find_points(self) ==
    IF self.inner_radius = None \/ self.outer_radius = None
    THEN [err |-> "TypeError", points |-> self.points]
    ELSE IF self.inner_radius[1] >= self.outer_radius[1]
    THEN [err |-> "ValueError", points |-> self.points]
    ELSE IF self.height = None
    THEN [err |-> "ValueError", points |-> self.points]
    ELSE [err |-> "ok",
          points |-> << <<Whole(self.inner_radius[1]), HalfOf(self.height[1])>>,
                        <<Whole(self.outer_radius[1]), HalfOf(self.height[1])>>,
                        <<Whole(self.outer_radius[1]), -HalfOf(self.height[1])>>,
                        <<Whole(self.inner_radius[1]), -HalfOf(self.height[1])>> >>]

Self == [height |-> height, inner_radius |-> inner_radius,
         outer_radius |-> outer_radius, points |-> points]

ShieldRest ==
    /\ height = None /\ inner_radius = None /\ outer_radius = None
    /\ points = None /\ err = "none" /\ last = "init"

\* __init__(height, inner_radius, outer_radius): the three setters run once;
\* points is as the base class leaves it, unset.
ShieldInit ==
    /\ height \in Heights
    /\ inner_radius \in Radii
    /\ outer_radius \in Radii
    /\ points = None /\ err = "none" /\ last = "init"

SetHeight ==
    \E h \in Heights :
        /\ height' = h
        /\ last' = "set"
        /\ UNCHANGED <<inner_radius, outer_radius, points, err>>
        /\ UNCHANGED notOfShield

SetInnerRadius ==
    \E r \in Radii :
        /\ inner_radius' = r
        /\ last' = "set"
        /\ UNCHANGED <<height, outer_radius, points, err>>
        /\ UNCHANGED notOfShield

SetOuterRadius ==
    \E r \in Radii :
        /\ outer_radius' = r
        /\ last' = "set"
        /\ UNCHANGED <<height, inner_radius, points, err>>
        /\ UNCHANGED notOfShield

FindPoints ==
    /\ points' = find_points(Self).points
    /\ err' = find_points(Self).err
    /\ last' = "find"
    /\ UNCHANGED <<height, inner_radius, outer_radius>>
    /\ UNCHANGED notOfShield

(***************************************************************************)
(* coefficients_of_line_from_points.  numpy.linalg.lstsq on the 2 x 2      *)
(* system with rows (x1, 1), (x2, 1): of full rank when x1 # x2, where the *)
(* least-squares solution is the one solution of the system; of rank 1     *)
(* when x1 = x2, where lstsq returns the minimum-norm least-squares        *)
(* solution and raises nothing.                                            *)
(***************************************************************************)
MaxCoord == 2

Coords == (-MaxCoord)..MaxCoord
Points2D == Coords \X Coords

lstsq(x1, y1, x2, y2) ==
    IF x1 # x2
    THEN [kind |-> "finite",
          m |-> Rat(y1 - y2, x1 - x2),
          c |-> Rat(x1 * y2 - x2 * y1, x1 - x2)]
    ELSE [kind |-> "finite",
          m |-> Rat(x1 * (y1 + y2), 2 * (x1 * x1 + 1)),
          c |-> Rat(y1 + y2, 2 * (x1 * x1 + 1))]

coefficients_of_line_from_points(p, q) == lstsq(p[1], p[2], q[1], q[2])

LineRest ==
    /\ point1 = <<0, 0>> /\ point2 = <<0, 0>>
    /\ coeffs = [kind |-> "finite", m |-> <<0, 1>>, c |-> <<0, 1>>]
    /\ fitted = FALSE

LineInit ==
    /\ point1 \in Points2D /\ point2 \in Points2D
    /\ coeffs = [kind |-> "finite", m |-> <<0, 1>>, c |-> <<0, 1>>]
    /\ fitted = FALSE

FitCall ==
    /\ ~fitted
    /\ coeffs' = coefficients_of_line_from_points(point1, point2)
    /\ fitted' = TRUE
    /\ UNCHANGED <<point1, point2>>
    /\ UNCHANGED notOfLine

(***************************************************************************)
(* find_center_point_of_circle.  The three points lie on a grid of pitch   *)
(* 1 / scale: point n of tri is (tri[n][1] / scale, tri[n][2] / scale).    *)
(* The center is returned in grid units as a pair of rationals and the     *)
(* radius as <<"sqrt", r2>>, the square root of the rational r2 (grid      *)
(* units squared), or <<"inf">>.                                           *)
(***************************************************************************)
MaxGrid == 2
FineScale == 1024
DetTolInverse == 1000000

Grid == (-1)..MaxGrid
GridPoints == Grid \X Grid

SqNorm(p) == p[1] * p[1] + p[2] * p[2]

\* det, in units of 1 / scale^2
Det(p1, p2, p3) ==
    (p1[1] - p2[1]) * (p2[2] - p3[2]) - (p2[1] - p3[1]) * (p1[2] - p2[2])

\* cy with the two products in the other order (the sign of cy flipped).
find_center_point_of_circle_cyflip(p1, p2, p3, sc) ==
    LET bc2 == SqNorm(p1) - SqNorm(p2)
        cd2 == SqNorm(p2) - SqNorm(p3)
        det == Det(p1, p2, p3)
    IN  IF Abs(det) * DetTolInverse < sc * sc
        THEN [center |-> None, radius |-> <<"inf">>]
        ELSE LET cxn == bc2 * (p2[2] - p3[2]) - cd2 * (p1[2] - p2[2])
                 cyn == (p2[1] - p3[1]) * bc2 - (p1[1] - p2[1]) * cd2
                 dx  == cxn - 2 * det * p1[1]
                 dy  == cyn - 2 * det * p1[2]
             IN  [center |-> <<Rat(cxn, 2 * det), Rat(cyn, 2 * det)>>,
                  radius |-> <<"sqrt", Rat(dx * dx + dy * dy, 4 * det * det)>>]

\* bc2 and cd2 are 2 * bc and 2 * cd of the source, in units of 1 / scale^2.
find_center_point_of_circle(p1, p2, p3, sc) ==
    LET bc2 == SqNorm(p1) - SqNorm(p2)
        cd2 == SqNorm(p2) - SqNorm(p3)
        det == Det(p1, p2, p3)
    IN  IF Abs(det) * DetTolInverse < sc * sc
        THEN [center |-> None, radius |-> <<"inf">>]
        ELSE LET cxn == bc2 * (p2[2] - p3[2]) - cd2 * (p1[2] - p2[2])
                 cyn == (p1[1] - p2[1]) * cd2 - (p2[1] - p3[1]) * bc2
                 dx  == cxn - 2 * det * p1[1]
                 dy  == cyn - 2 * det * p1[2]
             IN  [center |-> <<Rat(cxn, 2 * det), Rat(cyn, 2 * det)>>,
                  radius |-> <<"sqrt", Rat(dx * dx + dy * dy, 4 * det * det)>>]

Scales == {1, FineScale}

CircleRest ==
    /\ tri = <<<<0, 0>>, <<0, 0>>, <<0, 0>>>> /\ scale = 1
    /\ circle = [center |-> None, radius |-> <<"inf">>] /\ circled = FALSE

CircleInit ==
    /\ tri \in GridPoints \X GridPoints \X GridPoints
    /\ scale \in Scales
    /\ circle = [center |-> None, radius |-> <<"inf">>] /\ circled = FALSE

CircleCall ==
    /\ ~circled
    /\ circle' = find_center_point_of_circle(tri[1], tri[2], tri[3], scale)
    /\ circled' = TRUE
    /\ UNCHANGED <<tri, scale>>
    /\ UNCHANGED notOfCircle

(***************************************************************************)
(* add_thickness, one action per step of the call: the entry (lines        *)
(* 203-206), one pass of the loop body (lines 207-232), the return (line   *)
(* 234).  The index i is the source's, counted from 0.                     *)
(*                                                                         *)
(* A slope is [kind, num, den]: the finite rational num/den, or +inf,      *)
(* -inf, nan as numpy's division of the differences yields them for a      *)
(* zero dx.  convex is None until the loop assigns it, then <<flag>>.      *)
(* An outer coordinate is [base, u, r2, nan]: the number                   *)
(* base + thickness * u / sqrt(r2), where (u of x, u of y) is the normal   *)
(* (nx, ny) scaled by the slope's positive denominator and r2 the square   *)
(* of its length, so that u / sqrt(r2) is the normalised component; nan    *)
(* marks a coordinate computed from a nan slope.                           *)
(***************************************************************************)
MaxLen == 3
MaxX == 2
MaxThickness == 2

Finite(num, den) == [kind |-> "fin", num |-> Rat(num, den)[1],
                     den |-> Rat(num, den)[2]]
PosInf == [kind |-> "pinf", num |-> 1, den |-> 0]
NegInf == [kind |-> "ninf", num |-> -1, den |-> 0]
NaN    == [kind |-> "nan", num |-> 0, den |-> 0]

\* dy / dx as numpy divides: a zero dx gives +inf, -inf or nan.
np_divide(dy, dx) ==
    IF dx # 0 THEN Finite(dy, dx)
    ELSE IF dy > 0 THEN PosInf
    ELSE IF dy < 0 THEN NegInf
    ELSE NaN

\* np.diff(y) / np.diff(x)
np_diff_ratio(xs, ys) ==
    [n \in 1..(Len(xs) - 1) |-> np_divide(ys[n + 1] - ys[n], xs[n + 1] - xs[n])]

\* (nx, ny) of lines 208-214, scaled by the slope's denominator
Normal(slope) ==
    CASE slope.kind = "ninf" -> [nx |-> 1, ny |-> 0, nan |-> FALSE]
      [] slope.kind = "pinf" -> [nx |-> -1, ny |-> 0, nan |-> FALSE]
      [] slope.kind = "nan"  -> [nx |-> 0, ny |-> 1, nan |-> TRUE]
      [] slope.kind = "fin"  -> [nx |-> -slope.num, ny |-> slope.den,
                                 nan |-> FALSE]

\* lines 215-219: the flag is assigned on every pass but the last
ConvexAt(n, flag) ==
    IF n # Len(dy_dx) - 1
    THEN <<~(x[n + 1] < x[n + 2])>>
    ELSE flag

XValues == 0..MaxX
Thicknesses == 1..MaxThickness
SuppliedSlopes == {Finite(0, 1), Finite(1, 1), PosInf, NegInf}
Curves == UNION {[1..n -> XValues] : n \in 2..MaxLen}

ThickRest ==
    /\ x = <<0, 1>> /\ y = <<0, 0>> /\ thickness = 1
    /\ dy_dx = None /\ supplied = FALSE /\ i = 0 /\ convex = None
    /\ x_outer = <<>> /\ y_outer = <<>> /\ pc = "start"

\* The call add_thickness(x, y, thickness, dy_dx) with len(x) == len(y) >= 2
\* and dy_dx either None or of length len(x) - 1.
ThickInit ==
    /\ x \in Curves
    /\ y \in {ys \in Curves : Len(ys) = Len(x)}
    /\ thickness \in Thicknesses
    /\ dy_dx \in {None} \cup [1..(Len(x) - 1) -> SuppliedSlopes]
    /\ supplied = (dy_dx # None)
    /\ i = 0 /\ convex = None
    /\ x_outer = <<>> /\ y_outer = <<>> /\ pc = "start"

ThickEnter ==
    /\ pc = "start"
    /\ dy_dx' = IF dy_dx = None THEN np_diff_ratio(x, y) ELSE dy_dx
    /\ x_outer' = <<>> /\ y_outer' = <<>>
    /\ i' = 0
    /\ pc' = "loop"
    /\ UNCHANGED <<x, y, thickness, supplied, convex>>
    /\ UNCHANGED notOfThick

\* One pass of the loop body in which the flag read at line 221 is bound.
ThickPass ==
    /\ pc = "loop" /\ i < Len(dy_dx)
    /\ ConvexAt(i, convex) # None
    /\ LET normal == Normal(dy_dx[i + 1])
           flag   == ConvexAt(i, convex)[1]
           sign   == IF flag THEN -1 ELSE 1
           nx     == sign * normal.nx
           ny     == sign * normal.ny
           r2     == nx * nx + ny * ny
       IN  /\ convex' = <<flag>>
           /\ x_outer' = Append(x_outer, [base |-> x[i + 1], u |-> nx,
                                          r2 |-> r2, nan |-> normal.nan])
           /\ y_outer' = Append(y_outer, [base |-> y[i + 1], u |-> ny,
                                          r2 |-> r2, nan |-> normal.nan])
    /\ i' = i + 1
    /\ UNCHANGED <<x, y, thickness, dy_dx, supplied, pc>>
    /\ UNCHANGED notOfThick

\* The pass in which line 221 reads convex before any assignment to it:
\* Python raises UnboundLocalError and the call ends without a result.
ThickUnbound ==
    /\ pc = "loop" /\ i < Len(dy_dx)
    /\ ConvexAt(i, convex) = None
    /\ pc' = "UnboundLocalError"
    /\ UNCHANGED <<x, y, thickness, dy_dx, supplied, i, convex, x_outer,
                   y_outer>>
    /\ UNCHANGED notOfThick

ThickReturn ==
    /\ pc = "loop" /\ i = Len(dy_dx)
    /\ pc' = "done"
    /\ UNCHANGED <<x, y, thickness, dy_dx, supplied, i, convex, x_outer,
                   y_outer>>
    /\ UNCHANGED notOfThick

(***************************************************************************)
(* The specifications.                                                     *)
(***************************************************************************)
BoolNext   == BatchCall \/ SingleCall
SelNext    == FaceFilter \/ EdgeFilter
AngleNext  == DiffCall
ShieldNext == SetHeight \/ SetInnerRadius \/ SetOuterRadius \/ FindPoints
LineNext   == FitCall
CircleNext == CircleCall
ThickNext  == ThickEnter \/ ThickPass \/ ThickUnbound \/ ThickReturn

InitBool ==
    /\ BoolInit /\ SelRest /\ AngleRest /\ ShieldRest
    /\ LineRest /\ CircleRest /\ ThickRest
SpecBool == InitBool /\ [][BoolNext]_vars

InitSel ==
    /\ BoolRest /\ SelInit /\ AngleRest /\ ShieldRest
    /\ LineRest /\ CircleRest /\ ThickRest
SpecSel == InitSel /\ [][SelNext]_vars

InitAngle ==
    /\ BoolRest /\ SelRest /\ AngleInit /\ ShieldRest
    /\ LineRest /\ CircleRest /\ ThickRest
SpecAngle == InitAngle /\ [][AngleNext]_vars

InitShield ==
    /\ BoolRest /\ SelRest /\ AngleRest /\ ShieldInit
    /\ LineRest /\ CircleRest /\ ThickRest
SpecShield == InitShield /\ [][ShieldNext]_vars

InitLine ==
    /\ BoolRest /\ SelRest /\ AngleRest /\ ShieldRest
    /\ LineInit /\ CircleRest /\ ThickRest
SpecLine == InitLine /\ [][LineNext]_vars

InitCircle ==
    /\ BoolRest /\ SelRest /\ AngleRest /\ ShieldRest
    /\ LineRest /\ CircleInit /\ ThickRest
SpecCircle == InitCircle /\ [][CircleNext]_vars

InitThick ==
    /\ BoolRest /\ SelRest /\ AngleRest /\ ShieldRest
    /\ LineRest /\ CircleRest /\ ThickInit
SpecThick == InitThick /\ [][ThickNext]_vars

(***************************************************************************)
(* The claims.                                                             *)
(***************************************************************************)

\* C1: once the batch call on [s1, ..., sn] and the n sequential
\* single-operand calls have both been made on the same base, the two
\* results are the same solid (the same kernel calls in the same order),
\* for cut_solid, union_solid and intersect_solid alike; with n = 1 this is
\* the single operand s against the one-element collection [s].
C1_BatchEqualsSequential ==
    (batched /\ nseq = Len(operands)) => batch = acc

C1_Witness ==
    /\ batched /\ nseq = Len(operands) /\ Len(operands) = 2
    /\ op = "cut" /\ operands[1] # operands[2]
    /\ acc = <<"cut", <<"cut", solid, operands[1].solid>>, operands[2].solid>>
    /\ batch = acc

\* C3: the filter returns exactly the features whose measure lies strictly
\* between target - tolerance and target + tolerance, each once, in input
\* order (ids strictly increasing), and so the empty list when none matches.
SelTarget == IF selector.kind = "face" THEN selector.area ELSE selector.length
SelMatches(n) ==
    /\ SelTarget - selector.tol < objectList[n].measure
    /\ objectList[n].measure < SelTarget + selector.tol

C3_FilterExact ==
    filtered =>
        /\ \A n \in 1..Len(new_obj_list) :
             /\ new_obj_list[n].id \in 1..Len(objectList)
             /\ new_obj_list[n] = objectList[new_obj_list[n].id]
        /\ \A n, m \in 1..Len(new_obj_list) :
             n < m => new_obj_list[n].id < new_obj_list[m].id
        /\ {new_obj_list[n].id : n \in 1..Len(new_obj_list)}
             = {n \in 1..Len(objectList) : SelMatches(n)}

C3_Witness ==
    /\ filtered /\ selector.kind = "edge" /\ selector.tol = 2
    /\ Len(objectList) = 3 /\ Len(new_obj_list) = 2
    /\ objectList[2].measure = selector.length + selector.tol
    /\ new_obj_list = <<objectList[1], objectList[3]>>
    /\ objectList[1].measure > objectList[3].measure

\* C4: the result r of diff_between_angles(a, b) satisfies -180 < r <= 180
\* and r = b - a modulo 360; diff(a, b) = -diff(b, a) unless b - a = 180
\* modulo 360, where both orders give 180.
C4_AngleDiff ==
    angled =>
        /\ -180 < c /\ c <= 180
        /\ (c - (b - a)) % 360 = 0
        /\ IF (b - a) % 360 = 180
           THEN c = 180 /\ diff_between_angles(b, a) = 180
           ELSE c = -diff_between_angles(b, a)

C4_Witness == angled /\ a = 350 /\ b = 10 /\ c = 20

\* find_points on inner = 5, outer = 10, height = 20 (values beyond the bounds
\* of the state space): points = [(5, 10), (10, 10), (10, -10), (5, -10)].
C5_Example ==
    find_points([height |-> <<20>>, inner_radius |-> <<5>>,
                 outer_radius |-> <<10>>, points |-> None])
        = [err |-> "ok",
           points |-> << <<10, 20>>, <<20, 20>>, <<20, -20>>, <<10, -20>> >>]

ShieldInvalid ==
    \/ /\ inner_radius # None /\ outer_radius # None
       /\ inner_radius[1] >= outer_radius[1]
    \/ height = None

OnLine(p) ==
    coeffs.m[1] * p[1] * coeffs.c[2] + coeffs.c[1] * coeffs.m[2]
        = p[2] * coeffs.m[2] * coeffs.c[2]

C7_VerticalDetectable ==
    fitted =>
        IF point1[1] = point2[1]
        THEN coeffs.kind # "finite"
        ELSE coeffs.kind = "finite" /\ OnLine(point1) /\ OnLine(point2)

\* C8: the degenerate result (None, inf) is returned exactly when
\* |det| < 1e-6, in particular for collinear points (det = 0); otherwise the
\* center is at the same distance from the three points and the radius is
\* that distance.
SqDistIs(ctr, p, r2) ==
    LET ex == ctr[1][1] - p[1] * ctr[1][2]
        ey == ctr[2][1] - p[2] * ctr[2][2]
    IN  (ex * ex * ctr[2][2] * ctr[2][2] + ey * ey * ctr[1][2] * ctr[1][2])
            * r2[2]
        = r2[1] * ctr[1][2] * ctr[1][2] * ctr[2][2] * ctr[2][2]

Collinear(t) ==
    (t[2][1] - t[1][1]) * (t[3][2] - t[1][2])
        = (t[3][1] - t[1][1]) * (t[2][2] - t[1][2])

C8_CircleThroughPoints ==
    circled =>
        LET d == (tri[1][1] - tri[2][1]) * (tri[2][2] - tri[3][2])
                 - (tri[2][1] - tri[3][1]) * (tri[1][2] - tri[2][2])
        IN  /\ Collinear(tri) => circle.center = None
            /\ IF Abs(d) * 1000000 < scale * scale
               THEN circle.center = None /\ circle.radius = <<"inf">>
               ELSE /\ circle.center # None
                    /\ Len(circle.radius) = 2 /\ circle.radius[1] = "sqrt"
                    /\ \A n \in 1..3 :
                         SqDistIs(circle.center, tri[n], circle.radius[2])

\* (0,0), (2,0), (1,1): center (1,0), radius 1
C8_Witness ==
    /\ circled /\ scale = 1
    /\ tri = << <<0, 0>>, <<2, 0>>, <<1, 1>> >>
    /\ circle.center = << <<1, 1>>, <<0, 1>> >>
    /\ circle.radius = <<"sqrt", <<1, 1>>>>

\* C9: for a horizontal centerline with strictly increasing x, len >= 2 and
\* no derivatives supplied, the call returns, and every sample n of the outer
\* curve is (x[n], y[n] + thickness).
Horizontal == \A n \in 1..Len(y) : y[n] = y[1]
Increasing == \A n \in 1..(Len(x) - 1) : x[n] < x[n + 1]

C9_HorizontalOffset ==
    (/\ pc \in {"done", "UnboundLocalError"}
     /\ ~supplied /\ Horizontal /\ Increasing)
    => /\ pc = "done"
       /\ Len(x_outer) = Len(x) - 1 /\ Len(y_outer) = Len(x) - 1
       /\ \A n \in 1..Len(x_outer) :
            /\ ~x_outer[n].nan /\ x_outer[n].base = x[n] /\ x_outer[n].u = 0
            /\ ~y_outer[n].nan /\ y_outer[n].base = y[n]
            /\ y_outer[n].u > 0 /\ y_outer[n].u * y_outer[n].u = y_outer[n].r2

\* C10: the convexity flag is never read before this call has assigned it,
\* and the call returns a result.
C10_FlagBoundBeforeRead ==
    /\ pc # "UnboundLocalError"
    /\ (pc = "loop" /\ i < Len(dy_dx)) => ConvexAt(i, convex) # None

====
